---- MODULE Spec2Model ----
(***************************************************************************)
(* genevector/model.py: the embedding model (GeneVectorModel) and its      *)
(* trainer (GeneVector), as a state machine.                               *)
(*                                                                         *)
(* Numbers.  A Python/torch float is modelled as an exact fraction         *)
(* <<n, d>> in lowest terms with d > 0; <<0, 0>> is nan (numpy.mean of an  *)
(* empty list).  Weights are whole numbers of one weight quantum.          *)
(* Text.  A str is the sequence of its characters.                         *)
(***************************************************************************)
EXTENDS Integers, Sequences, FiniteSets, TLC

\* Bound of the model: the total of the `epochs` arguments of all train
\* calls of one run.
MaxTotalEpochs == 3

----------------------------------------------------------------------------
(* Floats as fractions *)

Abs(n) == IF n < 0 THEN -n ELSE n

Sgn(n) == IF n < 0 THEN -1 ELSE IF n > 0 THEN 1 ELSE 0

RECURSIVE GCD(_, _)
GCD(a, b) == IF b = 0 THEN a ELSE GCD(b, a % b)

NaN == <<0, 0>>

IsNaN(a) == a[2] = 0

Frac(n, d) ==
    IF d = 0 THEN NaN
    ELSE LET g == GCD(Abs(n), Abs(d))
             s == IF d < 0 THEN -1 ELSE 1
         IN  <<(s * n) \div g, (s * d) \div g>>

FromInt(n) == <<n, 1>>

FAdd(a, b) ==
    IF IsNaN(a) \/ IsNaN(b) THEN NaN
    ELSE Frac(a[1] * b[2] + b[1] * a[2], a[2] * b[2])

FSub(a, b) ==
    IF IsNaN(a) \/ IsNaN(b) THEN NaN
    ELSE Frac(a[1] * b[2] - b[1] * a[2], a[2] * b[2])

FMul(a, b) ==
    IF IsNaN(a) \/ IsNaN(b) THEN NaN
    ELSE Frac(a[1] * b[1], a[2] * b[2])

FAbs(a) == IF IsNaN(a) THEN NaN ELSE <<Abs(a[1]), a[2]>>

\* a < b; every comparison with nan is false
FLess(a, b) ==
    /\ ~IsNaN(a)
    /\ ~IsNaN(b)
    /\ a[1] * b[2] < b[1] * a[2]

RECURSIVE SumInts(_)
SumInts(s) == IF s = <<>> THEN 0 ELSE Head(s) + SumInts(Tail(s))

RECURSIVE SumFloats(_)
SumFloats(s) == IF s = <<>> THEN FromInt(0) ELSE FAdd(Head(s), SumFloats(Tail(s)))

----------------------------------------------------------------------------
(* str *)

RECURSIVE StartsWith(_, _)
StartsWith(s, p) ==
    \/ p = <<>>
    \/ /\ s # <<>>
       /\ Head(s) = Head(p)
       /\ StartsWith(Tail(s), Tail(p))

Drop(s, n) == SubSeq(s, n + 1, Len(s))

\* str.replace(old, new) for a non-empty old: every non-overlapping
\* occurrence, scanning from the left
RECURSIVE Replace(_, _, _)
Replace(s, old, new) ==
    IF s = <<>> THEN <<>>
    ELSE IF StartsWith(s, old) THEN new \o Replace(Drop(s, Len(old)), old, new)
    ELSE <<Head(s)>> \o Replace(Tail(s), old, new)

DotVec == <<".", "v", "e", "c">>

TwoDotVec == <<"2", ".", "v", "e", "c">>

----------------------------------------------------------------------------
(* Program constants *)

\* loss_values[-10:], lines 161-162
Window == 10

\* self.batch_size = 1e6, line 101
SentinelBatchSize == 1000000

\* gain=1, the constructor's default, line 86
Gain == 1

----------------------------------------------------------------------------
(* The dataset collaborator (genevector/dataset.py: what train reads of it) *)

\* The vocabulary: gene names in index order
GeneNames == <<"g0", "g1">>

Vocab == 0 .. (Len(GeneNames) - 1)

\* data.id2gene, a dict: its (index, name) entries in insertion order.
\* IndexOrder was filled in index order, ReverseOrder was not.
IndexOrder == [k \in 1 .. Len(GeneNames) |-> <<k - 1, GeneNames[k]>>]

ReverseOrder ==
    [k \in 1 .. Len(GeneNames) |->
        <<Len(GeneNames) - k, GeneNames[Len(GeneNames) - k + 1]>>]

\* The gene pairs (x_ij, i, j) a dataset may hold, in its stored order
AllPairs == <<<<1, 0, 1>>, <<0, 1, 0>>, <<2, 0, 0>>, <<1, 1, 1>>>>

\* dataset._ent, the per-gene target of the magnitude penalty
Ent == [g \in Vocab |-> 1]

\* One batch: the tensors (x_ij, i_idx, j_idx) of the pairs p
AsBatch(p) ==
    <<[b \in 1 .. Len(p) |-> p[b][1]],
      [b \in 1 .. Len(p) |-> p[b][2]],
      [b \in 1 .. Len(p) |-> p[b][3]]>>

\* dataset.get_batches(batch_size): one sweep over the pairs, batch_size
\* pairs per batch, the last batch shorter
RECURSIVE get_batches(_, _)
get_batches(pairs, bs) ==
    IF pairs = <<>> THEN <<>>
    ELSE IF Len(pairs) <= bs THEN <<AsBatch(pairs)>>
    ELSE <<AsBatch(SubSeq(pairs, 1, bs))>> \o get_batches(Drop(pairs, bs), bs)

----------------------------------------------------------------------------
(* GeneVectorModel *)

RECURSIVE SumFn(_, _)
SumFn(f, S) ==
    IF S = {} THEN 0
    ELSE LET x == CHOOSE y \in S : TRUE
         IN  f[x] + SumFn(f, S \ {x})

\* torch.sum(u * v): the inner product of two rows
Dot(u, v) == SumInts([k \in 1 .. Len(u) |-> u[k] * v[k]])

\* GeneVectorModel.__init__: the two tables after initialisation.  The
\* draw of the random initialiser is `seed`.
InitTable(which, dim, gain, init_ortho, seed) ==
    [r \in Vocab |->
        [k \in 1 .. dim |->
            IF init_ortho
            THEN IF which = "wi"
                 THEN (IF (r + seed) % Len(GeneNames) = k - 1 THEN gain ELSE 0)
                 ELSE (IF r = k - 1 THEN gain ELSE 0)
            ELSE IF which = "wi"
                 THEN (IF (r + k + seed) % 2 = 0 THEN 1 ELSE -1)
                 ELSE (IF (r * k + seed) % 2 = 0 THEN 1 ELSE 0)]]

\* GeneVectorModel.forward
forward(w_i, w_j, i_indices, j_indices) ==
    [b \in 1 .. Len(i_indices) |-> Dot(w_i[i_indices[b]], w_j[j_indices[b]])]

\* Variant of save_embedding: the rows in index order, whatever the order
\* of the mapping
save_embedding_IndexOrder(w_i, w_j, embedding_dim, id2word, layer) ==
    LET embedding == IF layer = 0 THEN w_i ELSE w_j
        name(wid) == (CHOOSE e \in {id2word[n] : n \in 1 .. Len(id2word)} : e[1] = wid)[2]
    IN  <<<<Len(id2word), embedding_dim>>>> \o
        [n \in 1 .. Len(id2word) |-> <<name(n - 1)>> \o embedding[n - 1]]

\* GeneVectorModel.save_embedding: the lines written to file_name, each
\* line the sequence of its space-separated fields
save_embedding(w_i, w_j, embedding_dim, id2word, layer) ==
    LET embedding == IF layer = 0 THEN w_i ELSE w_j
    IN  <<<<Len(id2word), embedding_dim>>>> \o
        [n \in 1 .. Len(id2word) |-> <<id2word[n][2]>> \o embedding[id2word[n][1]]]

----------------------------------------------------------------------------
(* The loss of one batch, lines 137-157, and its gradient, line 158 *)

\* nn.MSELoss: the mean of the squared differences
MSELoss(outputs, x_ij) ==
    Frac(SumInts([b \in 1 .. Len(outputs) |-> (outputs[b] - x_ij[b]) * (outputs[b] - x_ij[b])]),
         Len(outputs))

\* torch.matmul(w1, w2.t())
MatMulT(w1, w2) == [a \in Vocab |-> [b \in Vocab |-> Dot(w1[a], w2[b])]]

\* wTw.fill_diagonal_(0): wTw is a new tensor, the tables are not touched
FillDiagonal0(m) == [a \in Vocab |-> [b \in Vocab |-> IF a = b THEN 0 ELSE m[a][b]]]

\* STEP2, lines 144-147
OrthoPenalty(w1, w2, alpha) ==
    LET wTw == FillDiagonal0(MatMulT(w1, w2))
    IN  alpha * SumFn([a \in Vocab |-> SumFn([b \in Vocab |-> wTw[a][b] * wTw[a][b]], Vocab)], Vocab)

\* STEP3, lines 150-154
MagnitudePenalty(w1, w2, ent, beta) ==
    LET wTw == MatMulT(w1, w2)
    IN  beta * SumFn([a \in Vocab |-> (wTw[a][a] - ent[a]) * (wTw[a][a] - ent[a])], Vocab)

\* loss + t1 + t2, line 157
TotalLoss(w1, w2, batch, ent, alpha, beta) ==
    FAdd(FAdd(MSELoss(forward(w1, w2, batch[2], batch[3]), batch[1]),
              FromInt(OrthoPenalty(w1, w2, alpha))),
         FromInt(MagnitudePenalty(w1, w2, ent, beta)))

\* d TotalLoss / d table[r][k], table one of "wi", "wj": what
\* loss.backward() adds to the parameter's .grad
Gradient(table, w1, w2, batch, ent, alpha, beta) ==
    LET n    == Len(batch[1])
        out  == forward(w1, w2, batch[2], batch[3])
        wTw  == MatMulT(w1, w2)
        own  == IF table = "wi" THEN 2 ELSE 3
        oth  == IF table = "wi" THEN 3 ELSE 2
        peer == IF table = "wi" THEN w2 ELSE w1
        M(r, c) == IF table = "wi" THEN wTw[r][c] ELSE wTw[c][r]
        mse(r, k) ==
            SumInts([b \in 1 .. n |->
                IF batch[own][b] = r
                THEN (out[b] - batch[1][b]) * peer[batch[oth][b]][k]
                ELSE 0])
        off(r, k) ==
            SumFn([c \in Vocab |-> IF c = r THEN 0 ELSE M(r, c) * peer[c][k]], Vocab)
        dia(r, k) == (wTw[r][r] - ent[r]) * peer[r][k]
    IN  [r \in Vocab |->
            [k \in 1 .. Len(w1[r]) |->
                Frac(2 * (mse(r, k) + n * (alpha * off(r, k) + beta * dia(r, k))), n)]]

ZeroGradient(w) == [r \in Vocab |-> [k \in 1 .. Len(w[r]) |-> FromInt(0)]]

AddGradient(g, h) == [r \in Vocab |-> [k \in 1 .. Len(g[r]) |-> FAdd(g[r][k], h[r][k])]]

\* optim.Adadelta.step on one table: every parameter moves against its
\* gradient by a positive amount, one weight quantum here; a parameter
\* whose gradient is zero stays
AdadeltaStep(w, g) == [r \in Vocab |-> [k \in 1 .. Len(w[r]) |-> w[r][k] - Sgn(g[r][k][1])]]

----------------------------------------------------------------------------
(* The inputs of a run *)

Devices == {"cpu", "cuda", "cuda:0", "mps"}

PathVec == <<"a">> \o DotVec

PathTxt == <<"a", ".", "t", "x", "t">>

PathVecVec == <<"a">> \o DotVec \o DotVec

Paths == {PathVec, PathTxt, PathVecVec}

\* An optional argument: <<>> is None, <<v>> is the value v
None == <<>>

Some(v) == <<v>>

\* The threshold argument of train: its Python type and its value
Thresholds == {<<"NoneType", NaN>>, <<"int", Frac(1, 1)>>, <<"float", Frac(1, 2)>>}

\* The (alpha, beta) arguments of train, whole numbers here: no penalty,
\* the orthogonality penalty alone, the magnitude penalty alone
Penalties == {<<0, 0>>, <<1, 0>>, <<0, 1>>}

\* The platform and the constructor's arguments
InputSpace ==
    [cuda : BOOLEAN, mps : BOOLEAN, device : Devices,
     output_file : Paths,
     id2gene : {IndexOrder, ReverseOrder}, emb_dimension : {1, 2},
     init_ortho : BOOLEAN, seed : {0, 1},
     num_pairs : 0 .. Len(AllPairs), batch_size : {None, Some(1), Some(2)}]

DefaultInput ==
    [cuda |-> FALSE, mps |-> FALSE, device |-> "cpu",
     output_file |-> PathVec,
     id2gene |-> IndexOrder, emb_dimension |-> 1,
     init_ortho |-> FALSE, seed |-> 0,
     num_pairs |-> 2, batch_size |-> None]

\* The groups of inputs that are varied together
InputGroups ==
    {{"cuda", "mps", "device"}, {"output_file"}, {"id2gene", "emb_dimension"},
     {"init_ortho", "seed"}, {"num_pairs", "batch_size"}}

\* The runs explored: every run that departs from the default run in at
\* most one group of inputs
Inputs ==
    {c \in InputSpace :
        Cardinality({g \in InputGroups : \E f \in g : c[f] # DefaultInput[f]}) <= 1}

----------------------------------------------------------------------------
(* State *)

VARIABLES
    cfg,     \* the inputs of the run
    pc,      \* where the program is: "new", "failed", "idle" (between
             \* calls), or a line of train
    self,    \* the GeneVector object's fields
    model,   \* self.model: the tables, their .grad, the device they are on
    frame,   \* the arguments and locals of the train call in progress
    files,   \* the vector files written: path -> lines
    blob,    \* what save wrote: None, or Some(state_dict)
    fresh,   \* the model of a second trainer of identical shape
    ret,     \* the outcome of the last call
    hist     \* history: the batches requested, the optimizer steps and the
             \* converged calls so far, the length of the loss trace at the
             \* end of each epoch, the sum of the epochs arguments, and
             \* the exports and the starting state of the current train call

vars == <<cfg, pc, self, model, frame, files, blob, fresh, ret, hist>>

NoFrame ==
    [epochs |-> 0, threshold |-> <<"NoneType", NaN>>, alpha |-> 0, beta |-> 0,
     iter |-> 0, last_loss |-> FromInt(0), batches |-> <<>>, batch_i |-> 0,
     batch |-> <<>>, loss |-> NaN, t1 |-> 0, t2 |-> 0]

Outcome(op, raised, value) == [op |-> op, raised |-> raised, value |-> value]

\* What a train call starts from: its epochs argument, the trainer's state
\* and the counts at the call
Snapshot(epochs, h) ==
    [epochs |-> epochs, wi |-> model.wi, wj |-> model.wj, epoch |-> self.epoch,
     loss_values |-> self.loss_values, mean_loss_values |-> self.mean_loss_values,
     batches |-> h.batches, steps |-> h.steps]

Init ==
    /\ cfg \in Inputs
    /\ pc = "new"
    /\ self = [output_file_name |-> <<>>, emb_size |-> 0, emb_dimension |-> 0,
               batch_size |-> 0, use_cuda |-> FALSE, device |-> "",
               epoch |-> 0, loss_values |-> <<>>, mean_loss_values |-> <<>>]
    /\ model = [wi |-> <<>>, wj |-> <<>>, grad_wi |-> <<>>, grad_wj |-> <<>>,
                device |-> "cpu", embedding_dim |-> 0]
    /\ frame = NoFrame
    /\ files = <<>>
    /\ blob = None
    /\ fresh = [wi |-> <<>>, wj |-> <<>>]
    /\ ret = Outcome("", "", <<>>)
    /\ hist = [batches |-> 0, steps |-> 0, converged |-> 0, budget |-> 0,
               ends |-> <<>>, exports |-> <<>>,
               pre |-> [epochs |-> 0, wi |-> <<>>, wj |-> <<>>, epoch |-> 0,
                        loss_values |-> <<>>, mean_loss_values |-> <<>>,
                        batches |-> 0, steps |-> 0]]

----------------------------------------------------------------------------
(* GeneVector.__init__, lines 86-113 *)

BatchSizeOf(batch_size, num_pairs) ==
    IF batch_size = None /\ num_pairs # 0 THEN num_pairs
    ELSE IF batch_size # None THEN batch_size[1]
    ELSE SentinelBatchSize

\* line 105: the requested device is refused
DeviceRefused(device, use_cuda) == device = "cuda" /\ ~use_cuda

\* lines 105-108: the device the parameters are on after construction
PlacedOn(device) == IF device = "cuda" THEN "cuda" ELSE "cpu"

Construct ==
    /\ pc = "new"
    /\ self' = [self EXCEPT
                   !.output_file_name = cfg.output_file,
                   !.emb_size = Len(cfg.id2gene),
                   !.emb_dimension = cfg.emb_dimension,
                   !.batch_size = BatchSizeOf(cfg.batch_size, cfg.num_pairs),
                   !.use_cuda = cfg.cuda,
                   !.device = cfg.device]
    /\ IF DeviceRefused(cfg.device, cfg.cuda)
       THEN /\ pc' = "failed"
            /\ ret' = Outcome("__init__", "ValueError", <<>>)
            /\ UNCHANGED <<model, fresh>>
       ELSE /\ pc' = "idle"
            /\ ret' = Outcome("__init__", "", <<>>)
            /\ model' =
                 [wi |-> InitTable("wi", cfg.emb_dimension, Gain, cfg.init_ortho, cfg.seed),
                  wj |-> InitTable("wj", cfg.emb_dimension, Gain, cfg.init_ortho, cfg.seed),
                  grad_wi |-> ZeroGradient(InitTable("wi", cfg.emb_dimension, Gain, cfg.init_ortho, cfg.seed)),
                  grad_wj |-> ZeroGradient(InitTable("wj", cfg.emb_dimension, Gain, cfg.init_ortho, cfg.seed)),
                  device |-> PlacedOn(cfg.device),
                  embedding_dim |-> cfg.emb_dimension]
            /\ fresh' =
                 [wi |-> InitTable("wi", cfg.emb_dimension, Gain, cfg.init_ortho, 1 - cfg.seed),
                  wj |-> InitTable("wj", cfg.emb_dimension, Gain, cfg.init_ortho, 1 - cfg.seed)]
    /\ UNCHANGED <<cfg, frame, files, blob, hist>>

----------------------------------------------------------------------------
(* GeneVector.train, lines 116-178.  The diagnostic print of lines 163-167
   and 169, 176 writes to stdout only and is left out (update_interval >= 1). *)

\* s[-n:]
LastN(s, n) == IF Len(s) <= n THEN s ELSE SubSeq(s, Len(s) - n + 1, Len(s))

\* numpy.mean; nan for an empty list
Mean(s) == IF s = <<>> THEN NaN ELSE FMul(SumFloats(s), Frac(1, Len(s)))

\* Variant of TrailingMean: the mean of the whole trace
TrailingMean_WholeTrace(loss_values) == Mean(loss_values)

\* lines 161-162: numpy.mean(self.loss_values[-10:])
TrailingMean(loss_values) == Mean(LastN(loss_values, Window))

\* line 168: type(threshold) == float and abs(curr_loss - last_loss) < threshold
Converged(threshold, curr_loss, last_loss) ==
    /\ threshold[1] = "float"
    /\ FLess(FAbs(FSub(curr_loss, last_loss)), threshold[2])

\* lines 171, 178: self.output_file_name.replace(".vec", "2.vec")
SecondPath(output_file_name) == Replace(output_file_name, DotVec, TwoDotVec)

\* Variant of MoreEpochs: range(0, epochs+1)
MoreEpochs_Inclusive(iter, epochs) == iter <= epochs

\* line 132, range(1, epochs+1): whether another epoch follows the first
\* iter ones
MoreEpochs(iter, epochs) == iter < epochs

\* The call train(epochs, threshold, alpha=alpha, beta=beta), line 131
Train(epochs, threshold, alpha, beta) ==
    /\ pc = "idle"
    /\ hist.budget + epochs <= MaxTotalEpochs
    /\ pc' = "L132"
    /\ frame' = [NoFrame EXCEPT !.epochs = epochs, !.threshold = threshold,
                                !.alpha = alpha, !.beta = beta,
                                !.last_loss = FromInt(0)]
    /\ ret' = Outcome("train", "", "running")
    /\ hist' = [hist EXCEPT !.budget = @ + epochs, !.exports = <<>>,
                            !.pre = Snapshot(epochs, hist)]
    /\ UNCHANGED <<cfg, self, model, files, blob, fresh>>

\* lines 132-134: the next epoch, and its sweep of batches, or the end of
\* the loop
ForEpoch ==
    /\ pc = "L132"
    /\ IF MoreEpochs(frame.iter, frame.epochs)
       THEN /\ frame' = [frame EXCEPT
                            !.iter = @ + 1,
                            !.batch_i = 0,
                            !.batches = get_batches(SubSeq(AllPairs, 1, cfg.num_pairs),
                                                    self.batch_size)]
            /\ pc' = "L134"
       ELSE /\ pc' = "L177"
            /\ UNCHANGED frame
    /\ UNCHANGED <<cfg, self, model, files, blob, fresh, ret, hist>>

\* lines 134-135: the next batch of the sweep, or the end of the epoch
ForBatch ==
    /\ pc = "L134"
    /\ IF frame.batches # <<>>
       THEN /\ frame' = [frame EXCEPT
                            !.batch = Head(frame.batches),
                            !.batches = Tail(frame.batches),
                            !.batch_i = @ + 1]
            /\ hist' = [hist EXCEPT !.batches = @ + 1]
            /\ pc' = "L137"
       ELSE /\ pc' = "L161"
            /\ UNCHANGED <<frame, hist>>
    /\ UNCHANGED <<cfg, self, model, files, blob, fresh, ret>>

\* lines 137-154: the primary loss and the two penalties
ComputeLoss ==
    /\ pc = "L137"
    /\ frame' = [frame EXCEPT
                    !.loss = MSELoss(forward(model.wi, model.wj, frame.batch[2], frame.batch[3]),
                                     frame.batch[1]),
                    !.t1 = OrthoPenalty(model.wi, model.wj, frame.alpha),
                    !.t2 = MagnitudePenalty(model.wi, model.wj, Ent, frame.beta)]
    /\ pc' = "L156"
    /\ UNCHANGED <<cfg, self, model, files, blob, fresh, ret, hist>>

\* Variant of ZeroGrad: the gradients are not cleared
ZeroGrad_Missing ==
    /\ pc = "L156"
    /\ frame' = [frame EXCEPT
                    !.loss = FAdd(FAdd(frame.loss, FromInt(frame.t1)), FromInt(frame.t2))]
    /\ pc' = "L158"
    /\ UNCHANGED <<cfg, self, model, files, blob, fresh, ret, hist>>

\* lines 156-157: optimizer.zero_grad(); loss = loss + t1 + t2
ZeroGrad ==
    /\ pc = "L156"
    /\ model' = [model EXCEPT !.grad_wi = ZeroGradient(model.wi),
                              !.grad_wj = ZeroGradient(model.wj)]
    /\ frame' = [frame EXCEPT
                    !.loss = FAdd(FAdd(frame.loss, FromInt(frame.t1)), FromInt(frame.t2))]
    /\ pc' = "L158"
    /\ UNCHANGED <<cfg, self, files, blob, fresh, ret, hist>>

\* line 158: loss.backward() adds the gradient to each table's .grad
Backward ==
    /\ pc = "L158"
    /\ model' = [model EXCEPT
                    !.grad_wi = AddGradient(@, Gradient("wi", model.wi, model.wj, frame.batch,
                                                        Ent, frame.alpha, frame.beta)),
                    !.grad_wj = AddGradient(@, Gradient("wj", model.wi, model.wj, frame.batch,
                                                        Ent, frame.alpha, frame.beta))]
    /\ pc' = "L159"
    /\ UNCHANGED <<cfg, self, frame, files, blob, fresh, ret, hist>>

\* line 159: optimizer.step()
OptimizerStep ==
    /\ pc = "L159"
    /\ model' = [model EXCEPT !.wi = AdadeltaStep(@, model.grad_wi),
                              !.wj = AdadeltaStep(@, model.grad_wj)]
    /\ hist' = [hist EXCEPT !.steps = @ + 1]
    /\ pc' = "L160"
    /\ UNCHANGED <<cfg, self, frame, files, blob, fresh, ret>>

\* Variant of AppendLoss: the trace is replaced by the last loss
AppendLoss_Overwrite ==
    /\ pc = "L160"
    /\ self' = [self EXCEPT !.loss_values = <<frame.loss>>]
    /\ pc' = "L134"
    /\ UNCHANGED <<cfg, model, frame, files, blob, fresh, ret, hist>>

\* line 160: self.loss_values.append(loss.item())
AppendLoss ==
    /\ pc = "L160"
    /\ self' = [self EXCEPT !.loss_values = Append(@, frame.loss)]
    /\ pc' = "L134"
    /\ UNCHANGED <<cfg, model, frame, files, blob, fresh, ret, hist>>

\* lines 161-175: the end of an epoch
EpochEnd ==
    /\ pc = "L161"
    /\ LET curr_loss == TrailingMean(self.loss_values)
       IN  IF Converged(frame.threshold, curr_loss, frame.last_loss)
           THEN /\ self' = [self EXCEPT !.mean_loss_values = Append(@, curr_loss)]
                /\ hist' = [hist EXCEPT !.converged = @ + 1,
                                        !.ends = Append(@, Len(self.loss_values))]
                /\ pc' = "L170"
                /\ UNCHANGED frame
           ELSE /\ self' = [self EXCEPT !.mean_loss_values = Append(@, curr_loss),
                                        !.epoch = @ + 1]
                /\ frame' = [frame EXCEPT !.last_loss = curr_loss]
                /\ pc' = "L132"
                /\ hist' = [hist EXCEPT !.ends = Append(@, Len(self.loss_values))]
    /\ UNCHANGED <<cfg, model, files, blob, fresh, ret>>

\* One call of self.model.save_embedding(id2gene, file_name, layer) in train
Export(at, file_name, layer, next) ==
    /\ pc = at
    /\ LET lines == save_embedding(model.wi, model.wj, model.embedding_dim, cfg.id2gene, layer)
       IN  /\ files' = (file_name :> lines) @@ files
           /\ hist' = [hist EXCEPT
                          !.exports = Append(@, [file_name |-> file_name, layer |-> layer,
                                                 lines |-> lines, steps |-> hist.steps])]
    /\ pc' = next
    /\ ret' = IF next = "idle" THEN Outcome("train", "", "returned") ELSE ret
    /\ frame' = IF next = "idle" THEN NoFrame ELSE frame
    /\ UNCHANGED <<cfg, self, model, blob, fresh>>

\* Variant of ConvergedSaveInput: the return follows the first export
ConvergedSaveInput_ThenReturn == Export("L170", self.output_file_name, 0, "idle")

\* lines 170-173: the exports on convergence, and the return
ConvergedSaveInput == Export("L170", self.output_file_name, 0, "L171")

ConvergedSaveOutput == Export("L171", SecondPath(self.output_file_name), 1, "idle")

\* lines 177-178: the exports when the epochs are exhausted, and the return
FinalSaveInput == Export("L177", self.output_file_name, 0, "L178")

FinalSaveOutput == Export("L178", SecondPath(self.output_file_name), 1, "idle")

----------------------------------------------------------------------------
(* The other operations, called between train calls *)

\* The index pairs score is asked for: every (i, j), as two index tensors
AllI == [n \in 1 .. Len(GeneNames) * Len(GeneNames) |-> (n - 1) \div Len(GeneNames)]

AllJ == [n \in 1 .. Len(GeneNames) * Len(GeneNames) |-> (n - 1) % Len(GeneNames)]

\* self.model(i_idx, j_idx), GeneVectorModel.forward, for a caller
Score ==
    /\ pc = "idle"
    /\ ret' = Outcome("forward", "", forward(model.wi, model.wj, AllI, AllJ))
    /\ UNCHANGED <<cfg, pc, self, model, frame, files, blob, fresh, hist>>

\* GeneVector.save, lines 180-181: the model's state_dict
Save ==
    /\ pc = "idle"
    /\ blob' = Some([wi |-> model.wi, wj |-> model.wj])
    /\ ret' = Outcome("save", "", <<>>)
    /\ UNCHANGED <<cfg, pc, self, model, frame, files, fresh, hist>>

\* GeneVector.load, lines 183-185, called on the second trainer: the
\* object has no attribute gnn, so the attribute lookup raises before
\* anything is read or restored
Load ==
    /\ pc = "idle"
    /\ ret' = Outcome("load", "AttributeError", <<>>)
    /\ UNCHANGED <<cfg, pc, self, model, frame, files, blob, fresh, hist>>

\* GeneVector.plot, lines 187-195: the curve drawn, the x scale, and the
\* file the figure is saved to
Plot(fname, log) ==
    /\ pc = "idle"
    /\ ret' = Outcome("plot", "",
                      <<self.mean_loss_values, IF log THEN "log" ELSE "linear", fname>>)
    /\ UNCHANGED <<cfg, pc, self, model, frame, files, blob, fresh, hist>>

----------------------------------------------------------------------------

Next ==
    \/ Construct
    \/ \E epochs \in 0 .. MaxTotalEpochs, threshold \in Thresholds, ab \in Penalties :
           Train(epochs, threshold, ab[1], ab[2])
    \/ ForEpoch
    \/ ForBatch
    \/ ComputeLoss
    \/ ZeroGrad
    \/ Backward
    \/ OptimizerStep
    \/ AppendLoss
    \/ EpochEnd
    \/ ConvergedSaveInput
    \/ ConvergedSaveOutput
    \/ FinalSaveInput
    \/ FinalSaveOutput
    \/ Score
    \/ Save
    \/ Load
    \/ \E fname \in {None, Some(<<"l", ".", "p", "n", "g">>)}, log \in BOOLEAN : Plot(fname, log)

Spec == Init /\ [][Next]_vars

----------------------------------------------------------------------------
(* Properties *)

Constructed == pc \notin {"new", "failed"}

\* A train call has returned and nothing has been called since
TrainReturned == pc = "idle" /\ ret.op = "train"

Tables == <<model.wi, model.wj>>

IsPrefix(s, t) == Len(s) <= Len(t) /\ SubSeq(t, 1, Len(s)) = s

EndsWith(s, suffix) ==
    Len(suffix) <= Len(s) /\ SubSeq(s, Len(s) - Len(suffix) + 1, Len(s)) = suffix

\* The lines of the vector file of table w under the mapping id2word
VectorFile(w, id2word) ==
    [n \in 1 .. Len(id2word) + 1 |->
        IF n = 1 THEN <<Len(GeneNames), Len(w[0])>>
        ELSE <<id2word[n - 1][2]>> \o w[id2word[n - 1][1]]]

\* C1: when train returns, by convergence or with its epochs exhausted, the
\* call has made exactly two exports, first the input-role table to
\* output_path, then the output-role table; no optimizer step was taken
\* since the first of them, and what was exported is what the model holds.
C1_ExportsBeforeReturn ==
    TrainReturned =>
        /\ Len(hist.exports) = 2
        /\ hist.exports[1].file_name = self.output_file_name
        /\ hist.exports[1].layer = 0
        /\ hist.exports[1].lines = VectorFile(model.wi, cfg.id2gene)
        /\ hist.exports[2].layer = 1
        /\ hist.exports[2].lines = VectorFile(model.wj, cfg.id2gene)
        /\ hist.exports[1].steps = hist.steps
        /\ hist.exports[2].steps = hist.steps

\* A call that took optimizer steps has returned by convergence
C1_Witness ==
    /\ TrainReturned
    /\ hist.converged > 0
    /\ hist.steps > hist.pre.steps
    /\ hist.steps >= 2

\* C2: whatever real number the threshold is, the first epoch whose trailing
\* mean is within the threshold of the previous one is the last: train goes
\* to its exports without counting the epoch, rather than to another epoch.
C2_StopsForAnyRealThreshold ==
    [][(/\ pc = "L161"
        /\ frame.threshold[1] # "NoneType"
        /\ FLess(FAbs(FSub(Mean(LastN(self.loss_values, 10)), frame.last_loss)),
                 frame.threshold[2]))
       => (pc' = "L170" /\ self'.epoch = self.epoch)]_vars

\* C3: during and after train(0, ...) no batch has been requested, no
\* optimizer step taken, and the traces, the epoch counter and the tables
\* are those of the start of the call; at its return both tables, as they
\* were before the call, have been exported.
C3_ZeroEpochs ==
    (Constructed /\ ret.op = "train" /\ hist.pre.epochs = 0) =>
        /\ hist.batches = hist.pre.batches
        /\ hist.steps = hist.pre.steps
        /\ self.loss_values = hist.pre.loss_values
        /\ self.mean_loss_values = hist.pre.mean_loss_values
        /\ self.epoch = hist.pre.epoch
        /\ Tables = <<hist.pre.wi, hist.pre.wj>>
        /\ pc \in {"L132", "L177", "L178", "idle"}
        /\ pc = "idle" =>
            /\ Len(hist.exports) = 2
            /\ hist.exports[1].lines = VectorFile(hist.pre.wi, cfg.id2gene)
            /\ hist.exports[2].lines = VectorFile(hist.pre.wj, cfg.id2gene)
            /\ hist.exports[1].file_name \in DOMAIN files
            /\ hist.exports[2].file_name \in DOMAIN files

\* train(0, ...) has returned on a trainer that had been trained before
C3_Witness ==
    /\ TrainReturned
    /\ hist.pre.epochs = 0
    /\ hist.pre.steps > 0

\* C4: the loss trace only ever grows at its end, and between calls its
\* length is the number of batches requested so far, which is the number
\* of optimizer steps taken so far.
C4_LossTraceCountsBatches ==
    [][/\ IsPrefix(self.loss_values, self'.loss_values)
       /\ pc' = "idle" =>
            /\ Len(self'.loss_values) = hist'.batches
            /\ hist'.batches = hist'.steps]_vars

\* Two train calls have processed batches
C4_Witness ==
    /\ TrainReturned
    /\ hist.pre.steps > 0
    /\ hist.steps > hist.pre.steps
    /\ Len(self.loss_values) >= 3

\* C5: the output-role table is exported to output_path with its trailing
\* ".vec" replaced by "2.vec" and nothing else rewritten, a file other than
\* the input-role export, which is therefore still in place.
C5_SecondPathIsSuffixRewrite ==
    TrainReturned =>
        /\ EndsWith(self.output_file_name, DotVec)
        /\ hist.exports[2].file_name =
             SubSeq(self.output_file_name, 1, Len(self.output_file_name) - Len(DotVec))
                \o TwoDotVec
        /\ hist.exports[2].file_name # hist.exports[1].file_name
        /\ files[self.output_file_name] = hist.exports[1].lines

\* The devices that are accelerators, and whether the platform has them
Accelerated(device) == device # "cpu"

Available(device) == IF device = "mps" THEN cfg.mps ELSE cfg.cuda

DeviceType(device) == IF device \in {"cuda", "cuda:0"} THEN "cuda" ELSE device

\* C6: construction fails exactly when an accelerated device is requested
\* that the platform does not have; otherwise the parameters are on the
\* requested device.
C6_DeviceSelection ==
    pc # "new" =>
        IF Accelerated(cfg.device) /\ ~Available(cfg.device)
        THEN pc = "failed" /\ ret.raised = "ValueError"
        ELSE pc # "failed" /\ model.device = DeviceType(cfg.device)

\* C7: load after save, on a second trainer of identical shape, raises
\* nothing and leaves that trainer scoring as the saved model does.
C7_SaveLoadRoundTrip ==
    (ret.op = "load" /\ blob # None) =>
        /\ ret.raised = ""
        /\ forward(fresh.wi, fresh.wj, AllI, AllJ)
             = forward(blob[1].wi, blob[1].wj, AllI, AllJ)

C9_OnlyTheOptimizerStepWrites ==
    [][/\ (Constructed /\ Tables' # Tables) => (pc = "L159" /\ pc' = "L160")
       /\ pc = "L159" =>
            /\ frame.loss = TotalLoss(model.wi, model.wj, frame.batch, Ent,
                                      frame.alpha, frame.beta)
            /\ model.grad_wi = Gradient("wi", model.wi, model.wj, frame.batch, Ent,
                                        frame.alpha, frame.beta)
            /\ model.grad_wj = Gradient("wj", model.wi, model.wj, frame.batch, Ent,
                                        frame.alpha, frame.beta)
            /\ hist'.steps = hist.steps + 1
            /\ self'.loss_values = self.loss_values
       /\ pc = "L160" =>
            /\ self'.loss_values = Append(self.loss_values, frame.loss)
            /\ hist'.steps = hist.steps]_vars

\* A second batch with penalties has been through the optimizer step, and
\* the tables have moved
C9_Witness ==
    /\ pc = "L160"
    /\ hist.steps >= 2
    /\ frame.alpha + frame.beta > 0
    /\ Tables # <<hist.pre.wi, hist.pre.wj>>

====
